---- MODULE Spec2Model ----
(***************************************************************************)
(* Verification model of the fall-detection service (kionce57/FDS).        *)
(*                                                                         *)
(*   Spec        DelayConfirm (src/analysis/delay_confirm.py) driven by a  *)
(*               capture loop, with its observers and the EventLogger      *)
(*               table (src/events/event_logger.py).                       *)
(*   SpecUpload  CloudStorageUploader (src/lifecycle/cloud_sync.py) over   *)
(*               the EventLogger table.                                    *)
(*   SpecClips   the wired capture process with its clip saving            *)
(*               (src/events/clip_recorder.py, src/core/pipeline.py) and   *)
(*               ClipCleanup (src/lifecycle/clip_cleanup.py).              *)
(*   SpecBuffer  RollingBuffer (src/capture/rolling_buffer.py) under one   *)
(*               pushing thread and several reading threads.               *)
(*   SpecMain    main() (src/main.py) from its wiring to its shutdown,     *)
(*               with the ClipRecorder's timers and the CleanupScheduler   *)
(*               (src/lifecycle/cleanup_scheduler.py).                     *)
(*   SpecCollector  SkeletonCollector (src/lifecycle/skeleton_collector.py)*)
(*               with the tasks of its executor.                           *)
(*   SpecValidator  SkeletonValidator (src/lifecycle/schema/validator.py)  *)
(*               on bounded documents.                                     *)
(*                                                                         *)
(* Time is counted in ticks of 1/TicksPerSec second, so that int(t), which *)
(* builds event ids, really truncates.                                     *)
(***************************************************************************)
EXTENDS Integers, Sequences, FiniteSets, TLC

VARIABLES
    \* ---- DelayConfirm fields
    state, delay_sec, same_event_window, re_notify_interval,
    suspected_since, current_event, observers,
    \* ---- suspected-event observers' deliveries (SuspectedEventObserver)
    suspected_log,
    \* ---- caller (main loop): position and the clock value last passed
    pc, now,
    \* ---- EventLogger: the events table, event_id -> row
    rows,
    \* ---- history of DelayConfirm, used to state the properties
    last, created, confirmed_to, stay_emit, prev_emit, fallen_run, overwritten,
    \* ---- CloudStorageUploader and its environment
    files, call, retry_attempts, batch,
    \* ---- clip files on disk, ClipRecorder's timers, ClipCleanup
    clips, timers, retention_days, sweep, saves, unlinked,
    \* ---- RollingBuffer: its constructor's arguments, the deque, its
    \*      maxlen, the frames pushed since the last clear, the holder of
    \*      _lock, the get_clip calls under way
    buffer_seconds, fps, buffer, max_frames, pushed, _lock, scans,
    \* ---- ClipRecorder: cancelled timers, _pending_recordings, last operation
    cancelled, _pending_recordings, rec,
    \* ---- CleanupScheduler: config, _is_running, _scheduler, the cleanup
    \*      jobs that are scheduled, and the start/stop calls made so far
    cleanup_enabled, _is_running, _scheduler, jobs, asked,
    \* ---- SkeletonCollector: enabled, pending_events, extraction_count,
    \*      its executor and the tasks submitted to it, the skeleton files
    \*      written, and the last callback with what it did
    enabled, pending_events, extraction_count, executor, tasks,
    skeleton_files, col,
    \* ---- SkeletonValidator: the document handed to validate and the
    \*      outcome of the call
    data, verdict

dcVars == <<state, delay_sec, same_event_window, re_notify_interval,
            suspected_since, current_event, observers, suspected_log,
            pc, now, last, created, confirmed_to, stay_emit, prev_emit,
            fallen_run, overwritten>>
upVars == <<files, call, retry_attempts, batch>>
clVars == <<clips, timers, retention_days, sweep, saves, unlinked>>
rbVars == <<buffer_seconds, fps, buffer, max_frames, pushed, _lock, scans>>
rcVars == <<cancelled, _pending_recordings, rec>>
schVars == <<cleanup_enabled, _is_running, _scheduler, jobs, asked>>
skVars == <<enabled, pending_events, extraction_count, executor, tasks,
            skeleton_files, col>>
valVars == <<data, verdict>>
vars == <<dcVars, rows, upVars, clVars, rbVars, rcVars, schVars, skVars,
          valVars>>

\* Python's None: for text fields, for float fields, for a FallEvent, for a path.
None == "None"
NoTime == 0 - 1
NoEvent == [event_id |-> NoTime, confirmed_at |-> NoTime,
            last_notified_at |-> NoTime, notification_count |-> 0]
NoPath == <<>>
NoError == <<>>

\* ------------------------------------------------------------------ bounds
TicksPerSec == 2
MaxTime == 5
MaxObservers == 2

Sec(s) == s * TicksPerSec

\* ----------------------------------------------------------- FallState enum
NORMAL == "normal"
SUSPECTED == "suspected"
CONFIRMED == "confirmed"
FallState == {NORMAL, SUSPECTED, CONFIRMED}

\* Observers that can be registered (main.py wires these, in this order).
\* Pipeline (core/pipeline.py) registers itself in place of the ClipRecorder.
ObserverIds == <<"event_logger", "notifier", "clip_recorder", "pipeline">>
ObserverSet == {ObserverIds[i] : i \in 1..MaxObservers}

\* Constructor arguments tried, in ticks.  DefaultConfig is the constructor's
\* defaults (3 s, 60 s, 120 s); the others are short and sub-second settings.
DefaultConfig == <<Sec(3), Sec(60), Sec(120)>>
Configs == {<<1, 1, 1>>, <<2, 1, 2>>, <<1, 3, 2>>, <<2, 3, 1>>, DefaultConfig}

\* Clock values the capture loop passes.  Under the default configuration the
\* loop is sampled at the instants of the repository's test scenarios.
ScenarioTimes == {Sec(0), Sec(4), Sec(10), Sec(15), Sec(19),
                  Sec(123), Sec(124), Sec(125)}
Times == IF <<delay_sec, same_event_window, re_notify_interval>> = DefaultConfig
         THEN ScenarioTimes ELSE 0..MaxTime

\* ------------------------------------------------------------ EventLogger
\* A freshly inserted row: the columns the INSERT names, defaults elsewhere.
NewRow(confirmed_at, notification_count, created_at) ==
    [confirmed_at |-> confirmed_at, recovered_at |-> NoTime,
     notification_count |-> notification_count, clip_path |-> NoPath,
     skeleton_cloud_path |-> NoPath, skeleton_upload_status |-> "pending",
     skeleton_upload_error |-> NoError, created_at |-> created_at]

\* INSERT OR REPLACE INTO events (event_id, confirmed_at, notification_count, created_at)
Logger_on_fall_confirmed(tbl, event, wall) ==
    (event.event_id :> NewRow(event.confirmed_at, event.notification_count, wall))
        @@ tbl

\* UPDATE events SET recovered_at = ? WHERE event_id = ?
Logger_on_fall_recovered(tbl, event, wall) ==
    IF event.event_id \in DOMAIN tbl
    THEN [tbl EXCEPT ![event.event_id].recovered_at = wall]
    ELSE tbl

\* UPDATE events SET clip_path = ? WHERE event_id = ?
update_clip_path(tbl, event_id, clip_path) ==
    IF event_id \in DOMAIN tbl
    THEN [tbl EXCEPT ![event_id].clip_path = clip_path]
    ELSE tbl

\* UPDATE events SET skeleton_cloud_path, skeleton_upload_status, skeleton_upload_error
update_skeleton_upload(tbl, event_id, cloud_path, status, error) ==
    IF event_id \in DOMAIN tbl
    THEN [tbl EXCEPT ![event_id].skeleton_cloud_path = cloud_path,
                     ![event_id].skeleton_upload_status = status,
                     ![event_id].skeleton_upload_error = error]
    ELSE tbl

\* ------------------------------------------------------------ DelayConfirm
\* event_id = f"evt_{int(current_time)}": the id is the whole-second part.
EventId(current_time) == current_time \div TicksPerSec

FallEvent(current_time) ==
    [event_id |-> EventId(current_time), confirmed_at |-> current_time,
     last_notified_at |-> current_time, notification_count |-> 1]

\* update(): SUSPECTED, fallen, "current_time - self.suspected_since >= self.delay_sec"
DelayElapsedEarly(current_time) == current_time - suspected_since >= delay_sec - 1
DelayElapsed(current_time) == current_time - suspected_since >= delay_sec

\* _confirm_fall(): the same-event-window test
InSameEventWindowNever(current_time) == FALSE
InSameEventWindow(current_time) ==
    /\ current_event # NoEvent
    /\ current_time - current_event.confirmed_at < same_event_window

\* _check_re_notify(): the interval test
ReNotifyDueSinceConfirm(current_time) ==
    current_time - current_event.confirmed_at >= re_notify_interval
ReNotifyDueStrict(current_time) ==
    current_time - current_event.last_notified_at > re_notify_interval
ReNotifyDue(current_time) ==
    current_time - current_event.last_notified_at >= re_notify_interval

\* Each helper yields the fields it assigns and what it emits to the
\* observers.  "post" marks an assignment placed after the observer loop.
Effect(st, since, ev, emit, new_event) ==
    [state |-> st, suspected_since |-> since, current_event |-> ev,
     emit |-> emit, new_event |-> new_event]

NoEffect == Effect(state, suspected_since, current_event, "none", FALSE)

_reset == Effect(NORMAL, NoTime, current_event, "none", FALSE)

_confirm_fall(current_time) ==
    IF InSameEventWindow(current_time)
    THEN Effect(CONFIRMED, suspected_since, current_event, "none", FALSE)
    ELSE Effect(CONFIRMED, suspected_since, FallEvent(current_time),
                "confirmed", TRUE)

_check_re_notify(current_time) ==
    IF current_event = NoEvent THEN NoEffect
    ELSE IF ReNotifyDue(current_time)
    THEN Effect(state, suspected_since,
                [current_event EXCEPT !.last_notified_at = current_time,
                                      !.notification_count = @ + 1],
                "confirmed", FALSE)
    ELSE NoEffect

\* suspected_since = None is assigned after the observer loop.
_recover(current_time) ==
    Effect(NORMAL, NoTime, current_event,
           IF current_event # NoEvent THEN "recovered" ELSE "none", FALSE)

\* The match statement of update().
UpdateEffect(is_fallen, current_time) ==
    CASE state = NORMAL ->
            IF is_fallen
            THEN Effect(SUSPECTED, current_time, current_event, "none", FALSE)
            ELSE NoEffect
      [] state = SUSPECTED ->
            IF ~is_fallen THEN _reset
            ELSE IF DelayElapsed(current_time) THEN _confirm_fall(current_time)
            ELSE NoEffect
      [] state = CONFIRMED ->
            IF ~is_fallen THEN _recover(current_time)
            ELSE _check_re_notify(current_time)

\* "for observer in self.observers: observer.on_...(event)" with no handler
\* around the call: when the observer at position failAt raises, the loop
\* stops there and the exception leaves update().  failAt = 0: nobody raises.
Called(failAt) ==
    IF failAt = 0 THEN {observers[i] : i \in 1..Len(observers)}
    ELSE {observers[i] : i \in 1..failAt}
Completed(failAt) ==
    IF failAt = 0 THEN {observers[i] : i \in 1..Len(observers)}
    ELSE {observers[i] : i \in 1..(failAt - 1)}

NoStayEmit == [o \in ObserverSet |-> NoTime]

\* ------------------------------------------------------------------ Init
NoCall == [event_id |-> NoTime, dry_run |-> FALSE, existed |-> FALSE,
           outcomes |-> <<>>, uploads |-> 0, sleeps |-> 0, result |-> "none",
           before |-> "none"]
NoBatch == [dry_run |-> FALSE, todo |-> <<>>, success |-> 0, failed |-> 0,
            calls |-> <<>>, result |-> "none"]

\* ----------------------------------------------------------- RollingBuffer
\* FrameData: its timestamp, and its image standing for frame and bbox.
FrameData(timestamp, frame) == [timestamp |-> timestamp, frame |-> frame]

\* max_frames = int(buffer_seconds * fps), for a buffer of "ticks" ticks and
\* "rate" frames per second.
MaxFramesOf(ticks, rate) == (ticks * rate) \div TicksPerSec

\* deque(maxlen).append: a full deque drops its leftmost item, a deque of
\* maxlen 0 keeps nothing.
appendNewestDropped(buf, maxlen, frame_data) ==
    IF Len(buf) < maxlen THEN Append(buf, frame_data) ELSE buf
append(buf, maxlen, frame_data) ==
    IF maxlen = 0 THEN <<>>
    ELSE IF Len(buf) >= maxlen THEN Append(Tail(buf), frame_data)
    ELSE Append(buf, frame_data)

\* "start_time <= f.timestamp <= end_time"
InWindowExclusive(f, start_time, end_time) ==
    start_time <= f.timestamp /\ f.timestamp < end_time
InWindow(f, start_time, end_time) ==
    start_time <= f.timestamp /\ f.timestamp <= end_time

\* get_clip, run as a whole: what its scan returns when it holds _lock
\* from its first element to its last.
get_clip(buf, event_time, before_sec, after_sec) ==
    LET start_time == event_time - before_sec
        end_time == event_time + after_sec
    IN  SelectSeq(buf, LAMBDA f : InWindow(f, start_time, end_time))

\* No get_clip call of reading thread r is under way.
NoScan == [pc |-> "idle", event_time |-> NoTime, before_sec |-> 0,
           after_sec |-> 0, i |-> 0, acc |-> <<>>, seen |-> {},
           result |-> <<>>]

\* ------------------------------------------------------------ ClipRecorder
\* clip_before_sec and clip_after_sec (seconds): the footage kept before the
\* confirmation, and the delay of the recording timer.
ClipBeforeSec == 5
ClipAfterSec == 5

\* _generate_filename: "<YYYYMMDD_HHMMSS of now>_<event_id>.mp4"
_generate_filename(event_id, wall) == <<wall \div TicksPerSec, event_id>>

\* threading.Timer(clip_after_sec, _save_clip_delayed, args=[event])
\* "started" is the instant of Timer.start(), "due" the instant from which
\* the timer thread may run its function.
TimerIntervalNone == Sec(0)
TimerInterval == Sec(ClipAfterSec)
Timer(event, wall) ==
    [event_id |-> event.event_id, confirmed_at |-> event.confirmed_at,
     started |-> wall, due |-> wall + TimerInterval]
NoTimer == [event_id |-> NoTime, confirmed_at |-> NoTime,
            started |-> NoTime, due |-> NoTime]

\* One ClipRecorder.save that wrote a file, followed by update_clip_path:
\* "found" tells whether the table had a row of that event_id then,
\* "recorded" whether the UPDATE was executed and committed.
Save(event_id, clip_path, found, recorded) ==
    [event_id |-> event_id, clip_path |-> clip_path, found |-> found,
     recorded |-> recorded]

\* The last operation of the ClipRecorder: on_fall_confirmed ("scheduled"),
\* _save_clip_delayed ("fired", with the frames it read and whether save()
\* got an opened VideoWriter) or shutdown.
NoRec == [op |-> "none", timer |-> NoTimer, frames |-> <<>>,
          pending |-> {}, opened |-> FALSE]

\* The result of the last ClipCleanup.cleanup call, none so far.
NoSweep == [dry_run |-> FALSE, expired |-> <<>>, deleted_count |-> 0,
            skipped_count |-> 0, would_delete_count |-> 0, result |-> "none"]

\* No clip on disk, no timer, the default retention of 7 days.
ClipsIdle ==
    /\ clips = {}
    /\ timers = {}
    /\ retention_days = 7
    /\ sweep = NoSweep
    /\ saves = <<>>
    /\ unlinked = <<>>

\* A RollingBuffer nobody uses, with main()'s default size of 10 s at 15 fps.
BufferIdle ==
    /\ buffer_seconds = Sec(10)
    /\ fps = 15
    /\ buffer = <<>>
    /\ max_frames = MaxFramesOf(buffer_seconds, fps)
    /\ pushed = <<>>
    /\ _lock = <<>>
    /\ scans = <<>>

\* A ClipRecorder that was never called.
RecorderIdle ==
    /\ cancelled = {}
    /\ _pending_recordings = <<>>
    /\ rec = NoRec

\* What the start() and stop() calls made so far leave the scheduler
\* asked to be, the last of them, and whether it found nothing to do.
NoAsk == [op |-> "none", running |-> FALSE, noop |-> FALSE]

\* No CleanupScheduler was built.
SchedulerIdle ==
    /\ cleanup_enabled = FALSE
    /\ _is_running = FALSE
    /\ _scheduler = None
    /\ jobs = 0
    /\ asked = NoAsk

\* The last callback of the SkeletonCollector, none so far: the event it
\* got, the frames it read, and whether it raised; for a task run by the
\* executor, the callback that submitted it and the file it wrote.
NoCol == [op |-> "none",
          event |-> [suspected_id |-> NoTime, suspected_at |-> NoTime,
                     outcome |-> "pending"],
          by |-> "none", frames |-> <<>>, raised |-> FALSE,
          written |-> NoPath]

\* No SkeletonCollector was built.
CollectorIdle ==
    /\ enabled = FALSE
    /\ pending_events = <<>>
    /\ extraction_count = 0
    /\ executor = None
    /\ tasks = <<>>
    /\ skeleton_files = {}
    /\ col = NoCol

\* No document was handed to a SkeletonValidator; NoFrameIdx stands for
\* a document without analysis.fall_frame_idx.
NoFrameIdx == 0 - 1
NoDocument == [keypoint_format |-> "coco17", total_frames |-> 0,
               sequence |-> <<>>, fall_frame_idx |-> NoFrameIdx,
               well_formed |-> TRUE]
ValidatorIdle ==
    /\ data = NoDocument
    /\ verdict = "none"

\* No uploader is at work in the capture process.
UploadIdle ==
    /\ files = {}
    /\ call = NoCall
    /\ retry_attempts = 0
    /\ batch = NoBatch

Init ==
    /\ state = NORMAL
    /\ \E c \in Configs :
          /\ delay_sec = c[1]
          /\ same_event_window = c[2]
          /\ re_notify_interval = c[3]
    /\ suspected_since = NoTime
    /\ current_event = NoEvent
    /\ observers = <<>>
    /\ suspected_log = <<>>
    /\ pc = "wiring"
    /\ now = 0
    /\ rows = <<>>
    /\ last = [is_fallen |-> FALSE, time |-> NoTime, from |-> "init",
               emit |-> "none", new_event |-> FALSE, raised |-> FALSE,
               called |-> {}]
    /\ created = <<>>
    /\ confirmed_to = {}
    /\ stay_emit = NoStayEmit
    /\ prev_emit = NoStayEmit
    /\ fallen_run = FALSE
    /\ overwritten = FALSE
    /\ UploadIdle
    /\ ClipsIdle
    /\ BufferIdle
    /\ RecorderIdle
    /\ CollectorIdle
    /\ ValidatorIdle
    /\ SchedulerIdle

\* -------------------------------------------------------- CleanupScheduler
\* "if self._is_running: return"
AlreadyRunningIgnored(running) == FALSE
AlreadyRunning(running) == running

\* "if not self.config.lifecycle.cleanup_enabled: return"
CleanupDisabled(is_enabled) == ~is_enabled

\* CleanupScheduler.start(): a new BackgroundScheduler with the one job
\* "clip_cleanup" is started, unless cleanup is disabled or already running.
start ==
    /\ asked' = [op |-> "start",
                 running |-> IF cleanup_enabled THEN TRUE ELSE asked.running,
                 noop |-> asked.running \/ ~cleanup_enabled]
    /\ IF CleanupDisabled(cleanup_enabled) \/ AlreadyRunning(_is_running)
       THEN UNCHANGED <<_is_running, _scheduler, jobs>>
       ELSE /\ _scheduler' = "BackgroundScheduler"
            /\ jobs' = jobs + 1
            /\ _is_running' = TRUE
    /\ UNCHANGED cleanup_enabled

\* "self._scheduler.shutdown(wait=False)": the BackgroundScheduler's thread
\* is woken and ends without waiting for the next run time of its job,
\* which is never submitted again; n is the number of schedulers at work.
ShutDownSkipped(n) == n
ShutDown(n) == n - 1

\* CleanupScheduler.stop(): the scheduler is shut down with its job.
stop ==
    /\ asked' = [op |-> "stop", running |-> FALSE, noop |-> ~asked.running]
    /\ IF ~_is_running \/ _scheduler = None
       THEN UNCHANGED <<_is_running, _scheduler, jobs>>
       ELSE /\ _scheduler' = None
            /\ jobs' = ShutDown(jobs)
            /\ _is_running' = FALSE
    /\ UNCHANGED cleanup_enabled

\* --------------------------------------------------------------- actions
\* DelayConfirm.add_observer, called while main() wires the components.
add_observer(observer) ==
    /\ pc = "wiring"
    /\ Len(observers) < MaxObservers
    /\ observer = ObserverIds[Len(observers) + 1]
    /\ observers' = Append(observers, observer)
    /\ UNCHANGED <<state, delay_sec, same_event_window, re_notify_interval,
                   suspected_since, current_event, suspected_log, pc, now,
                   last, created, confirmed_to, stay_emit, prev_emit,
                   fallen_run, overwritten, rows, upVars, clVars, rbVars,
                   rcVars, schVars, skVars,
                   valVars>>

\* main(): the wiring is over, cleanup_scheduler.start() is called and the
\* capture loop starts.
StartLoop ==
    /\ pc = "wiring"
    /\ pc' = "loop"
    /\ start
    /\ UNCHANGED <<state, delay_sec, same_event_window, re_notify_interval,
                   suspected_since, current_event, observers, suspected_log,
                   now, last, created, confirmed_to, stay_emit, prev_emit,
                   fallen_run, overwritten, rows, upVars, clVars, rbVars,
                   rcVars, skVars, valVars>>

\* The events table after the observers in "done" ran their callback.
RowsAfter(eff, done, wall) ==
    IF "event_logger" \notin done THEN rows
    ELSE IF eff.emit = "confirmed"
         THEN Logger_on_fall_confirmed(rows, eff.current_event, wall)
    ELSE IF eff.emit = "recovered"
         THEN Logger_on_fall_recovered(rows, eff.current_event, wall)
    ELSE rows

\* Observer a was registered before observer b.
RegisteredBefore(a, b) ==
    \E i, j \in 1..Len(observers) :
        i < j /\ observers[i] = a /\ observers[j] = b

\* DelayConfirm.update(is_fallen, current_time), one call from the loop.
\* The observers' callbacks run inside it, in the order of registration:
\* EventLogger writes the table, ClipRecorder.on_fall_confirmed starts a
\* timer, Pipeline.on_fall_confirmed saves the clip at once ("saved":
\* ClipRecorder.save returned a path) and updates the clip path.
update(is_fallen, current_time, failAt, saved) ==
    LET eff == UpdateEffect(is_fallen, current_time)
        raised == failAt # 0
        called == IF eff.emit = "none" THEN {} ELSE Called(failAt)
        done == IF eff.emit = "none" THEN {} ELSE Completed(failAt)
        scheduled == eff.emit = "confirmed" /\ "clip_recorder" \in done
        by_pipeline == eff.emit = "confirmed" /\ "pipeline" \in done
        clip_path == _generate_filename(eff.current_event.event_id, current_time)
        timer == Timer(eff.current_event, current_time)
        logged == eff.emit = "confirmed" /\ "event_logger" \in done
        inserted_first ==
            logged /\ RegisteredBefore("event_logger", "pipeline")
        found == inserted_first \/ eff.current_event.event_id \in DOMAIN rows
    IN  /\ pc = "loop"
        /\ current_time >= now
        /\ eff.emit = "none" => failAt = 0
        /\ ~by_pipeline => saved
        /\ (by_pipeline /\ saved) =>
              get_clip(buffer', eff.current_event.confirmed_at,
                       Sec(ClipBeforeSec), Sec(ClipAfterSec)) # <<>>
        /\ timers' = IF scheduled THEN timers \cup {timer} ELSE timers
        /\ _pending_recordings' =
              IF scheduled THEN Append(_pending_recordings, timer)
              ELSE _pending_recordings
        /\ rec' = IF scheduled
                   THEN [op |-> "scheduled", timer |-> timer, frames |-> <<>>,
                         pending |-> {}, opened |-> FALSE]
                   ELSE NoRec
        /\ clips' = IF by_pipeline /\ saved THEN clips \cup {clip_path} ELSE clips
        /\ saves' = IF by_pipeline /\ saved
                     THEN Append(saves, Save(eff.current_event.event_id,
                                             clip_path, found, TRUE))
                     ELSE saves
        /\ sweep' = NoSweep
        /\ now' = current_time
        /\ state' = eff.state
        /\ current_event' = eff.current_event
        /\ suspected_since' =
              IF eff.emit = "recovered" /\ raised THEN suspected_since
              ELSE eff.suspected_since
        /\ rows' = IF by_pipeline /\ saved /\ (inserted_first \/ ~logged)
                    THEN update_clip_path(RowsAfter(eff, done, current_time),
                                          eff.current_event.event_id, clip_path)
                    ELSE RowsAfter(eff, done, current_time)
        /\ last' = [is_fallen |-> is_fallen, time |-> current_time,
                    from |-> state, emit |-> eff.emit,
                    new_event |-> eff.new_event, raised |-> raised,
                    called |-> called]
        /\ created' = IF eff.new_event
                      THEN Append(created, [event_id |-> eff.current_event.event_id,
                                            confirmed_at |-> current_time])
                      ELSE created
        /\ confirmed_to' =
              IF eff.new_event THEN called
              ELSE IF eff.emit = "confirmed" THEN confirmed_to \cup called
              ELSE confirmed_to
        /\ stay_emit' =
              IF eff.state # CONFIRMED THEN NoStayEmit
              ELSE [o \in ObserverSet |->
                      IF eff.emit = "confirmed" /\ o \in called THEN current_time
                      ELSE IF state = CONFIRMED THEN stay_emit[o]
                      ELSE NoTime]
        /\ prev_emit' = (IF state = CONFIRMED THEN stay_emit ELSE NoStayEmit)
        /\ fallen_run' =
              IF state = NORMAL THEN is_fallen
              ELSE IF state = SUSPECTED THEN fallen_run /\ is_fallen
              ELSE fallen_run
        /\ overwritten' =
              \/ overwritten
              \/ /\ eff.new_event
                 /\ "event_logger" \in done
                 /\ eff.current_event.event_id \in DOMAIN rows
        /\ UNCHANGED <<delay_sec, same_event_window, re_notify_interval,
                       observers, suspected_log, pc, upVars,
                       retention_days, unlinked, cancelled, schVars, skVars,
                   valVars>>

Loop ==
    \E is_fallen \in BOOLEAN, current_time \in Times,
       failAt \in 0..Len(observers), saved \in BOOLEAN :
        /\ UNCHANGED rbVars
        /\ update(is_fallen, current_time, failAt, saved)

Wire == \E o \in ObserverSet : add_observer(o)

Next == Wire \/ StartLoop \/ Loop

Spec == Init /\ [][Next]_vars

\* ===================================================== CloudStorageUploader
MaxRetryAttempts == 3
SecondsPerDay == 86400

\* Event times (seconds) of the rows the uploader works on.
UploadEpochs == {86500, 172900}
UploadIds == {EventId(Sec(e)) : e \in UploadEpochs}

\* _generate_cloud_path: "YYYY/MM/DD/<event_id>.json", the date being that of
\* the timestamp spelled in the event id.
_generate_cloud_path(event_id) == <<event_id \div SecondsPerDay, event_id>>

\* What one blob.upload_from_filename call does: it returns, it raises
\* GoogleCloudError (a transport error), it raises Forbidden (the store's
\* answer to bad credentials, a subclass of GoogleCloudError), or it raises
\* an exception of another class.
UploadOutcomes == {"ok", "GoogleCloudError", "Forbidden", "OtherError"}

\* "except GoogleCloudError" catches the class and its subclasses.
IsGoogleCloudError(outcome) == outcome \in {"GoogleCloudError", "Forbidden"}

\* The behaviour of the object store during one upload_skeleton call: the
\* first "fails" attempts raise GoogleCloudError, the later ones do "final".
StoreBehaviour(fails, final) ==
    [i \in 1..retry_attempts |-> IF i <= fails THEN "GoogleCloudError" ELSE final]
StoreBehaviours ==
    {StoreBehaviour(f, x) : f \in 0..retry_attempts, x \in {"ok", "OtherError"}}
        \cup {[i \in 1..retry_attempts |-> "Forbidden"]}

\* "if attempt < self.retry_attempts - 1": sleep and try again
ShouldRetryNever(attempt) == FALSE
ShouldRetryOneLess(attempt) == attempt < retry_attempts - 2
ShouldRetry(attempt) == attempt < retry_attempts - 1

UploadResult(tbl, result, uploads, sleeps) ==
    [rows |-> tbl, result |-> result, uploads |-> uploads, sleeps |-> sleeps]

\* "Upload failed after {retry_attempts} attempts: {last_error}"
FailedAfter(last_error) == <<"Upload failed after", retry_attempts, last_error>>

\* The retry loop of upload_skeleton, from attempt number "attempt" (0-based).
RECURSIVE RetryLoop(_, _, _, _, _, _)
RetryLoop(tbl, event_id, outcomes, attempt, uploads, sleeps) ==
    IF attempt >= retry_attempts
    THEN \* range() exhausted without an attempt: last_error is still None
         UploadResult(update_skeleton_upload(tbl, event_id, NoPath, "failed",
                                             FailedAfter(None)),
                      "False", uploads, sleeps)
    ELSE CASE outcomes[attempt + 1] = "ok" ->
                UploadResult(update_skeleton_upload(tbl, event_id,
                                 _generate_cloud_path(event_id), "uploaded", NoError),
                             "True", uploads + 1, sleeps)
           [] IsGoogleCloudError(outcomes[attempt + 1]) ->
                IF ShouldRetry(attempt)
                THEN RetryLoop(tbl, event_id, outcomes, attempt + 1,
                               uploads + 1, sleeps + 1)
                ELSE UploadResult(update_skeleton_upload(tbl, event_id, NoPath,
                                      "failed", FailedAfter(outcomes[attempt + 1])),
                                  "False", uploads + 1, sleeps)
           [] OTHER ->
                \* not caught by "except GoogleCloudError": leaves the method
                UploadResult(tbl, "raised", uploads + 1, sleeps)

\* "if not local_path.exists()"
LocalFileMissingIgnored(exists) == FALSE
LocalFileMissing(exists) == ~exists

\* CloudStorageUploader.upload_skeleton(event_id, local_path, dry_run)
upload_skeleton(tbl, event_id, exists, dry_run, outcomes) ==
    IF LocalFileMissing(exists)
    THEN UploadResult(update_skeleton_upload(tbl, event_id, NoPath, "failed",
                                             <<"Local file not found", event_id>>),
                      "False", 0, 0)
    ELSE IF dry_run THEN UploadResult(tbl, "True", 0, 0)
    ELSE RetryLoop(tbl, event_id, outcomes, 0, 0, 0)

\* EventLogger.get_pending_uploads: the pending rows, by confirmed_at ascending
RECURSIVE SortByConfirmedAt(_, _)
SortByConfirmedAt(tbl, ids) ==
    IF ids = {} THEN <<>>
    ELSE LET first == CHOOSE i \in ids :
                        \A j \in ids : \/ tbl[i].confirmed_at < tbl[j].confirmed_at
                                       \/ (tbl[i].confirmed_at = tbl[j].confirmed_at
                                           /\ i <= j)
         IN  <<first>> \o SortByConfirmedAt(tbl, ids \ {first})

get_every_upload(tbl) == SortByConfirmedAt(tbl, DOMAIN tbl)
get_pending_uploads(tbl) ==
    SortByConfirmedAt(tbl, {i \in DOMAIN tbl :
                              tbl[i].skeleton_upload_status = "pending"})

\* CloudStorageUploader.upload_pending(skeleton_dir, dry_run): every pending
\* row is handed to upload_skeleton with the path <skeleton_dir>/<event_id>.json
\* and the results are counted.  behaviour[id] is what the store does for id.
\* "calls" lists the event ids handed to upload_skeleton, in order.
RECURSIVE PendingLoop(_, _, _, _, _, _, _)
PendingLoop(tbl, todo, dry_run, behaviour, success, failed, calls) ==
    IF todo = <<>>
    THEN [rows |-> tbl, success |-> success, failed |-> failed,
          calls |-> calls, result |-> "returned"]
    ELSE LET id == Head(todo)
             r == upload_skeleton(tbl, id, id \in files, dry_run, behaviour[id])
         IN  IF r.result = "raised"
             THEN [rows |-> r.rows, success |-> success, failed |-> failed,
                   calls |-> Append(calls, id), result |-> "raised"]
             ELSE PendingLoop(r.rows, Tail(todo), dry_run, behaviour,
                              IF r.result = "True" THEN success + 1 ELSE success,
                              IF r.result = "True" THEN failed ELSE failed + 1,
                              Append(calls, id))

\* --------------------------------------------------------------- actions
dcIdle ==
    /\ state = NORMAL
    /\ delay_sec = DefaultConfig[1]
    /\ same_event_window = DefaultConfig[2]
    /\ re_notify_interval = DefaultConfig[3]
    /\ suspected_since = NoTime
    /\ current_event = NoEvent
    /\ observers = <<>>
    /\ suspected_log = <<>>
    /\ pc = "wiring"
    /\ now = 0
    /\ last = [is_fallen |-> FALSE, time |-> NoTime, from |-> "init",
               emit |-> "none", new_event |-> FALSE, raised |-> FALSE,
               called |-> {}]
    /\ created = <<>>
    /\ confirmed_to = {}
    /\ stay_emit = NoStayEmit
    /\ prev_emit = NoStayEmit
    /\ fallen_run = FALSE
    /\ overwritten = FALSE

InitUpload ==
    /\ dcIdle
    /\ rows = <<>>
    /\ files = {}
    /\ call = NoCall
    /\ batch = NoBatch
    /\ retry_attempts \in 0..MaxRetryAttempts
    /\ ClipsIdle
    /\ BufferIdle
    /\ RecorderIdle
    /\ CollectorIdle
    /\ ValidatorIdle
    /\ SchedulerIdle

\* A fall is confirmed for the first time and the EventLogger persists its
\* row (status pending).
Persist(epoch) ==
    /\ EventId(Sec(epoch)) \notin DOMAIN rows
    /\ rows' = Logger_on_fall_confirmed(rows, FallEvent(Sec(epoch)), Sec(epoch))
    /\ call' = NoCall
    /\ batch' = NoBatch
    /\ UNCHANGED <<dcVars, files, retry_attempts, clVars, rbVars, rcVars,
                     schVars, skVars,
                   valVars>>

\* The skeleton file <skeleton_dir>/<event_id>.json is written.
WriteSkeletonFile(event_id) ==
    /\ event_id \notin files
    /\ files' = files \cup {event_id}
    /\ call' = NoCall
    /\ batch' = NoBatch
    /\ UNCHANGED <<dcVars, rows, retry_attempts, clVars, rbVars, rcVars,
                   schVars, skVars,
                   valVars>>

\* One call of upload_skeleton (the CLI's --event-id, or a test).
UploadSkeleton(event_id, dry_run, outcomes) ==
    LET r == upload_skeleton(rows, event_id, event_id \in files, dry_run, outcomes)
    IN  /\ rows' = r.rows
        /\ call' = [event_id |-> event_id, dry_run |-> dry_run,
                    existed |-> event_id \in files, outcomes |-> outcomes,
                    uploads |-> r.uploads, sleeps |-> r.sleeps,
                    result |-> r.result,
                    before |-> IF event_id \in DOMAIN rows
                               THEN rows[event_id].skeleton_upload_status
                               ELSE "none"]
        /\ batch' = NoBatch
        /\ UNCHANGED <<dcVars, files, retry_attempts, clVars, rbVars, rcVars,
                     schVars, skVars,
                   valVars>>

\* One call of upload_pending.
UploadPending(dry_run, behaviour) ==
    LET todo == get_pending_uploads(rows)
        r == PendingLoop(rows, todo, dry_run, behaviour, 0, 0, <<>>)
    IN  /\ rows' = r.rows
        /\ batch' = [dry_run |-> dry_run, todo |-> todo, success |-> r.success,
                     failed |-> r.failed, calls |-> r.calls, result |-> r.result]
        /\ call' = NoCall
        /\ UNCHANGED <<dcVars, files, retry_attempts, clVars, rbVars, rcVars,
                     schVars, skVars,
                   valVars>>

Confirmations == \E e \in UploadEpochs : Persist(e)
Extractions == \E i \in UploadIds : WriteSkeletonFile(i)
SingleUploads ==
    \E i \in UploadIds, d \in BOOLEAN, o \in StoreBehaviours :
        UploadSkeleton(i, d, o)
BatchDryRun ==
    \E b \in [UploadIds -> StoreBehaviours] : UploadPending(TRUE, b)
BatchUpload ==
    \E b \in [UploadIds -> StoreBehaviours] : UploadPending(FALSE, b)

NextUpload ==
    Confirmations \/ Extractions \/ SingleUploads \/ BatchDryRun \/ BatchUpload

SpecUpload == InitUpload /\ [][NextUpload]_vars

\* The batch upload is run again and again (a cron job or an operator).
FairSpecUpload == SpecUpload /\ WF_vars(BatchUpload)

\* ====================================================== clips and retention
MaxDays == 1
MaxRetentionDays == 1
MaxClipEvents == 2

\* Clock values of the capture loop in the clip scenarios: a fall confirmed
\* at 4 s (its recording timer is due at 9 s), the re-notification at 124 s,
\* and two instants on each of the following days.
ClipTimes ==
    {Sec(0), Sec(4), Sec(124)}
        \cup {Sec(d * SecondsPerDay + s) : d \in 1..MaxDays, s \in {4, 9}}

\* main() registers the ClipRecorder third, Pipeline.__init__ registers itself.
MainWiring == <<ObserverIds[1], ObserverIds[2], ObserverIds[3]>>
PipelineWiringSelfFirst == <<ObserverIds[4], ObserverIds[1], ObserverIds[2]>>
PipelineWiring == <<ObserverIds[1], ObserverIds[2], ObserverIds[4]>>

\* get_expired_clips: "WHERE created_at < ? AND clip_path IS NOT NULL"
ExpiredInclusive(created_at, cutoff_time) == created_at <= cutoff_time
Expired(created_at, cutoff_time) == created_at < cutoff_time

\* cutoff_time = time.time() - (self.retention_days * 24 * 60 * 60)
CutoffTime(wall) == wall - retention_days * Sec(SecondsPerDay)

\* "ORDER BY created_at ASC"
RECURSIVE SortByCreatedAt(_, _)
SortByCreatedAt(tbl, ids) ==
    IF ids = {} THEN <<>>
    ELSE LET first == CHOOSE i \in ids :
                        \A j \in ids : \/ tbl[i].created_at < tbl[j].created_at
                                       \/ (tbl[i].created_at = tbl[j].created_at
                                           /\ i <= j)
         IN  <<first>> \o SortByCreatedAt(tbl, ids \ {first})

\* ClipCleanup.get_expired_clips, as the event ids of the records returned
get_expired_clips(tbl, wall) ==
    SortByCreatedAt(tbl, {i \in DOMAIN tbl :
                            /\ Expired(tbl[i].created_at, CutoffTime(wall))
                            /\ tbl[i].clip_path # NoPath})

\* "if dry_run:" in the loop of cleanup
IsDryRunIgnored(dry_run) == FALSE
IsDryRun(dry_run) == dry_run

\* The loop of ClipCleanup.cleanup over the expired records.  fs is the set
\* of clip files on disk; clip_path.unlink() raises for the paths in fails.
RECURSIVE CleanupLoop(_, _, _, _, _, _)
CleanupLoop(tbl, fs, todo, dry_run, fails, acc) ==
    IF todo = <<>>
    THEN [acc EXCEPT !.rows = tbl, !.clips = fs, !.result = "returned"]
    ELSE LET id == Head(todo)
             clip_path == tbl[id].clip_path
         IN  IF clip_path \notin fs
             THEN CleanupLoop(tbl, fs, Tail(todo), dry_run, fails,
                              [acc EXCEPT !.skipped_count = @ + 1])
             ELSE IF IsDryRun(dry_run)
             THEN CleanupLoop(tbl, fs, Tail(todo), dry_run, fails,
                              [acc EXCEPT !.would_delete_count = @ + 1])
             ELSE IF clip_path \in fails
             THEN \* unlink raised: nothing in cleanup catches it
                  [acc EXCEPT !.rows = tbl, !.clips = fs, !.result = "raised"]
             ELSE CleanupLoop([tbl EXCEPT ![id].clip_path = NoPath],
                              fs \ {clip_path}, Tail(todo), dry_run, fails,
                              [acc EXCEPT !.deleted_count = @ + 1,
                                          !.removed = Append(@, clip_path)])

\* ClipCleanup.cleanup(dry_run).  The UPDATEs are committed by the
\* conn.commit() after the loop: when the loop raises, the connection is
\* dropped uncommitted and the table keeps its old content.
cleanup(tbl, fs, wall, dry_run, fails) ==
    LET todo == get_expired_clips(tbl, wall)
        r == CleanupLoop(tbl, fs, todo, dry_run, fails,
                         [rows |-> tbl, clips |-> fs, expired |-> todo,
                          deleted_count |-> 0, skipped_count |-> 0,
                          would_delete_count |-> 0, removed |-> <<>>,
                          result |-> "none"])
    IN  IF r.result = "raised" THEN [r EXCEPT !.rows = tbl] ELSE r

\* --------------------------------------------------------------- actions
\* The capture process once its wiring is done, with the default timings.
InitClips ==
    /\ state = NORMAL
    /\ delay_sec = DefaultConfig[1]
    /\ same_event_window = DefaultConfig[2]
    /\ re_notify_interval = DefaultConfig[3]
    /\ suspected_since = NoTime
    /\ current_event = NoEvent
    /\ observers \in {MainWiring, PipelineWiring}
    /\ suspected_log = <<>>
    /\ pc = "loop"
    /\ now = 0
    /\ rows = <<>>
    /\ last = [is_fallen |-> FALSE, time |-> NoTime, from |-> "init",
               emit |-> "none", new_event |-> FALSE, raised |-> FALSE,
               called |-> {}]
    /\ created = <<>>
    /\ confirmed_to = {}
    /\ stay_emit = NoStayEmit
    /\ prev_emit = NoStayEmit
    /\ fallen_run = FALSE
    /\ overwritten = FALSE
    /\ UploadIdle
    /\ clips = {}
    /\ timers = {}
    /\ retention_days \in 1..MaxRetentionDays
    /\ sweep = NoSweep
    /\ saves = <<>>
    /\ unlinked = <<>>
    /\ BufferIdle
    /\ RecorderIdle
    /\ CollectorIdle
    /\ ValidatorIdle
    /\ SchedulerIdle

\* One frame of the capture loop, each with a later time.time() than the
\* one before.  main() has no handler for an exception leaving update(): the
\* loop goes on only while no observer raises.
process_frame(is_fallen, current_time, saved) ==
    LET frame_data == FrameData(current_time, Len(pushed) + 1)
    IN  /\ buffer' = append(buffer, max_frames, frame_data)
        /\ pushed' = Append(pushed, frame_data)
        /\ UNCHANGED <<buffer_seconds, fps, max_frames, _lock, scans>>
        /\ update(is_fallen, current_time, 0, saved)

Capture ==
    \E is_fallen \in BOOLEAN, current_time \in ClipTimes, saved \in BOOLEAN :
        /\ last.time = NoTime \/ current_time > now
        /\ process_frame(is_fallen, current_time, saved)
        /\ Len(created') <= MaxClipEvents

\* The timer thread runs its function unless cancel() was called before.
IsCancelled(timer) == timer \in cancelled

\* ClipRecorder.save: "if not frames: return None", and once the writer is
\* built "if not writer.isOpened(): return None"; TRUE when a file is
\* written and its path returned.
saveAlways(frames, opened) == TRUE
save(frames, opened) == frames # <<>> /\ opened

\* ClipRecorder._save_clip_delayed, run by a timer thread once the timer is
\* due.  "opened": the VideoWriter that save() builds can be opened.  The
\* EventLogger's connection was opened by the main thread with sqlite3's
\* default check_same_thread, so update_clip_path raises ProgrammingError in
\* the timer thread and the table is left as it was.
_save_clip_delayed(timer, opened) ==
    LET clip_path == _generate_filename(timer.event_id, now)
        frames == get_clip(buffer, timer.confirmed_at, Sec(ClipBeforeSec),
                           Sec(ClipAfterSec))
        saved == save(frames, opened)
    IN  /\ pc # "exited"
        /\ timer \in timers
        /\ now >= timer.due
        /\ ~IsCancelled(timer)
        /\ timers' = timers \ {timer}
        /\ clips' = IF saved THEN clips \cup {clip_path} ELSE clips
        /\ saves' = IF saved
                    THEN Append(saves, Save(timer.event_id, clip_path,
                                            timer.event_id \in DOMAIN rows,
                                            FALSE))
                    ELSE saves
        /\ rec' = [op |-> "fired", timer |-> timer, frames |-> frames,
                   pending |-> {}, opened |-> frames # <<>> /\ opened]
        /\ sweep' = NoSweep
        /\ UNCHANGED <<dcVars, rows, upVars, retention_days, unlinked, rbVars,
                       cancelled, _pending_recordings, schVars, skVars,
                   valVars>>

\* A clip file disappears from the disk without the table being told.
ClipLost(clip_path) ==
    /\ clip_path \in clips
    /\ clips' = clips \ {clip_path}
    /\ sweep' = NoSweep
    /\ rec' = NoRec
    /\ UNCHANGED <<dcVars, rows, upVars, timers, retention_days, saves,
                   unlinked, rbVars, cancelled, _pending_recordings, schVars, skVars,
                   valVars>>

\* One retention tick: CleanupScheduler._run_cleanup or the cleanup CLI.
Cleanup(dry_run, fails) ==
    LET r == cleanup(rows, clips, now, dry_run, fails)
    IN  /\ rows' = r.rows
        /\ clips' = r.clips
        /\ unlinked' = unlinked \o r.removed
        /\ sweep' = [dry_run |-> dry_run, expired |-> r.expired,
                     deleted_count |-> r.deleted_count,
                     skipped_count |-> r.skipped_count,
                     would_delete_count |-> r.would_delete_count,
                     result |-> r.result]
        /\ rec' = NoRec
        /\ UNCHANGED <<dcVars, upVars, timers, retention_days, saves, rbVars,
                       cancelled, _pending_recordings, schVars, skVars,
                   valVars>>

Recordings ==
    \E t \in timers, opened \in BOOLEAN : _save_clip_delayed(t, opened)
Losses == \E p \in clips : ClipLost(p)
UnlinkFailures == {{}} \cup {{p} : p \in clips}
SweepDryRun == \E f \in UnlinkFailures : Cleanup(TRUE, f)
SweepDelete == \E f \in UnlinkFailures : Cleanup(FALSE, f)

NextClips == Capture \/ Recordings \/ Losses \/ SweepDryRun \/ SweepDelete

SpecClips == InitClips /\ [][NextClips]_vars

\* =========================================================== RollingBuffer
MaxStamp == 1
MaxPushes == 3
MaxReaders == 1

\* The reading threads; the timestamps of the frames and the event times.
Readers == 1..MaxReaders
Stamps == 0..MaxStamp

\* <<before_sec, after_sec>> of a get_clip call, in ticks.
Spans == {<<0, 1>>, <<1, 0>>}

\* (buffer_seconds, fps) of the constructor, buffer_seconds in ticks: a
\* product below one frame, one that is not a whole number, and two frames.
BufferConfigs == {<<1, 1>>, <<1, TicksPerSec + 1>>, <<Sec(1), 2>>}

\* "with self._lock": the lock is taken when nobody holds it.
AcquirableAlways(holder) == TRUE
Acquirable(holder) == holder = <<>>

\* A RollingBuffer just built, no call made yet.
InitBuffer ==
    /\ dcIdle
    /\ rows = <<>>
    /\ UploadIdle
    /\ ClipsIdle
    /\ RecorderIdle
    /\ CollectorIdle
    /\ ValidatorIdle
    /\ SchedulerIdle
    /\ \E c \in BufferConfigs :
          /\ buffer_seconds = c[1]
          /\ fps = c[2]
    /\ max_frames = MaxFramesOf(buffer_seconds, fps)
    /\ buffer = <<>>
    /\ pushed = <<>>
    /\ _lock = <<>>
    /\ scans = [r \in Readers |-> NoScan]

\* The get_clip calls under way, told that the deque is now buf.
Seen(buf) ==
    [r \in Readers |->
        IF scans[r].pc = "scanning"
        THEN [scans[r] EXCEPT !.seen = @ \cup {buf}]
        ELSE scans[r]]

\* RollingBuffer.push, by the one pushing thread.
push(frame_data) ==
    /\ Acquirable(_lock)
    /\ Len(pushed) < MaxPushes
    /\ buffer' = append(buffer, max_frames, frame_data)
    /\ pushed' = Append(pushed, frame_data)
    /\ scans' = Seen(buffer')
    /\ UNCHANGED <<dcVars, rows, upVars, clVars, rcVars, schVars, skVars, valVars,
                   buffer_seconds, fps, max_frames, _lock>>

\* RollingBuffer.clear
clear ==
    /\ Acquirable(_lock)
    /\ buffer' = <<>>
    /\ pushed' = <<>>
    /\ scans' = Seen(buffer')
    /\ UNCHANGED <<dcVars, rows, upVars, clVars, rcVars, schVars, skVars, valVars,
                   buffer_seconds, fps, max_frames, _lock>>

\* RollingBuffer.get_clip called by reading thread r: it takes _lock and
\* starts to iterate over the deque.
get_clip_enter(r, event_time, before_sec, after_sec) ==
    /\ scans[r].pc # "scanning"
    /\ Acquirable(_lock)
    /\ _lock' = <<r>>
    /\ scans' = [scans EXCEPT ![r] =
                    [pc |-> "scanning", event_time |-> event_time,
                     before_sec |-> before_sec, after_sec |-> after_sec,
                     i |-> 1, acc |-> <<>>, seen |-> {buffer},
                     result |-> <<>>]]
    /\ UNCHANGED <<dcVars, rows, upVars, clVars, rcVars, schVars, skVars, valVars,
                   buffer_seconds, fps, max_frames, buffer, pushed>>

\* The list comprehension looks at the next element of the deque.
get_clip_scan(r) ==
    LET sc == scans[r]
        f == buffer[sc.i]
        start_time == sc.event_time - sc.before_sec
        end_time == sc.event_time + sc.after_sec
    IN  /\ sc.pc = "scanning"
        /\ sc.i <= Len(buffer)
        /\ scans' = [scans EXCEPT ![r].i = sc.i + 1,
                                   ![r].acc =
                                       IF InWindow(f, start_time, end_time)
                                       THEN Append(sc.acc, f) ELSE sc.acc]
        /\ UNCHANGED <<dcVars, rows, upVars, clVars, rcVars, schVars, skVars, valVars,
                       buffer_seconds, fps, max_frames, buffer, pushed, _lock>>

\* The iteration is over: get_clip releases _lock and returns its list.
\* Only the list returned last is followed further.
get_clip_return(r) ==
    LET sc == scans[r]
    IN  /\ sc.pc = "scanning"
        /\ sc.i > Len(buffer)
        /\ _lock' = IF _lock = <<r>> THEN <<>> ELSE _lock
        /\ scans' = [q \in Readers |->
                        IF q = r
                        THEN [sc EXCEPT !.pc = "returned", !.i = 0,
                                        !.acc = <<>>, !.seen = {},
                                        !.result = sc.acc]
                        ELSE IF scans[q].pc = "returned" THEN NoScan
                        ELSE scans[q]]
        /\ UNCHANGED <<dcVars, rows, upVars, clVars, rcVars, schVars, skVars, valVars,
                       buffer_seconds, fps, max_frames, buffer, pushed>>

Pushes == \E t \in Stamps : push(FrameData(t, Len(pushed) + 1))
Enters ==
    \E r \in Readers, event_time \in Stamps, span \in Spans :
        get_clip_enter(r, event_time, span[1], span[2])
Scans == \E r \in Readers : get_clip_scan(r)
Returns == \E r \in Readers : get_clip_return(r)

NextBuffer == Pushes \/ clear \/ Enters \/ Scans \/ Returns

SpecBuffer == InitBuffer /\ [][NextBuffer]_vars

\* ============================================================ main process
\* Clock values of the capture loop of SpecMain: a fall confirmed at 4 s,
\* the half second before its recording timer is due, the instant it is
\* due, the re-notification at 124 s and the instant its timer is due.
MainTimes ==
    {Sec(0), Sec(4), Sec(4 + ClipAfterSec) - 1, Sec(4 + ClipAfterSec),
     Sec(124), Sec(124 + ClipAfterSec)}

\* main() once its components are built and wired, before it starts the
\* CleanupScheduler; cleanup_enabled is the configuration's choice.
InitMain ==
    /\ state = NORMAL
    /\ delay_sec = DefaultConfig[1]
    /\ same_event_window = DefaultConfig[2]
    /\ re_notify_interval = DefaultConfig[3]
    /\ suspected_since = NoTime
    /\ current_event = NoEvent
    /\ observers = MainWiring
    /\ suspected_log = <<>>
    /\ pc = "wiring"
    /\ now = 0
    /\ rows = <<>>
    /\ last = [is_fallen |-> FALSE, time |-> NoTime, from |-> "init",
               emit |-> "none", new_event |-> FALSE, raised |-> FALSE,
               called |-> {}]
    /\ created = <<>>
    /\ confirmed_to = {}
    /\ stay_emit = NoStayEmit
    /\ prev_emit = NoStayEmit
    /\ fallen_run = FALSE
    /\ overwritten = FALSE
    /\ UploadIdle
    /\ ClipsIdle
    \* buffer_seconds and fps of the configuration: the default of 150
    \* frames, or 2 frames
    /\ \E c \in {<<Sec(10), 15>>, <<Sec(1), 2>>} :
          /\ buffer_seconds = c[1]
          /\ fps = c[2]
    /\ buffer = <<>>
    /\ max_frames = MaxFramesOf(buffer_seconds, fps)
    /\ pushed = <<>>
    /\ _lock = <<>>
    /\ scans = <<>>
    /\ RecorderIdle
    /\ CollectorIdle
    /\ ValidatorIdle
    /\ cleanup_enabled \in BOOLEAN
    /\ _is_running = FALSE
    /\ _scheduler = None
    /\ jobs = 0
    /\ asked = NoAsk

\* One frame of main()'s loop.
CaptureMain ==
    \E is_fallen \in BOOLEAN, current_time \in MainTimes :
        /\ last.time = NoTime \/ current_time > now
        /\ process_frame(is_fallen, current_time, TRUE)
        /\ Len(created') <= MaxClipEvents

\* The timers that ClipRecorder.shutdown cancels.
CancelNothing(pending) == {}
Cancel(pending) == {pending[i] : i \in 1..Len(pending)}

\* ClipRecorder.shutdown(): "for timer in self._pending_recordings:
\* timer.cancel()", then the list is cleared.
shutdown ==
    /\ pc # "exited"
    /\ cancelled' = cancelled \cup Cancel(_pending_recordings)
    /\ _pending_recordings' = <<>>
    /\ rec' = [op |-> "shutdown", timer |-> NoTimer, frames |-> <<>>,
               pending |-> timers \ cancelled, opened |-> FALSE]
    /\ sweep' = NoSweep
    /\ UNCHANGED <<dcVars, rows, upVars, clips, timers, retention_days, saves,
                   unlinked, rbVars, schVars, skVars,
                   valVars>>

\* A start() or stop() call on the CleanupScheduler from outside main().
SchedulerStart ==
    /\ pc # "exited"
    /\ start
    /\ rec' = NoRec
    /\ sweep' = NoSweep
    /\ UNCHANGED <<dcVars, rows, upVars, clips, timers, retention_days,
                   saves, unlinked, rbVars, cancelled, _pending_recordings,
                   skVars, valVars>>
SchedulerStop ==
    /\ pc # "exited"
    /\ stop
    /\ rec' = NoRec
    /\ sweep' = NoSweep
    /\ UNCHANGED <<dcVars, rows, upVars, clips, timers, retention_days,
                   saves, unlinked, rbVars, cancelled, _pending_recordings,
                   skVars, valVars>>

\* The BackgroundScheduler's thread runs the job "clip_cleanup" of a
\* scheduler that was started and not shut down, its IntervalTrigger being
\* due: CleanupScheduler._run_cleanup, which catches what cleanup raises.
\* The interval is the configuration's cleanup_schedule_hours.
ScheduledTick ==
    /\ pc # "exited"
    /\ jobs >= 1
    /\ \E fails \in UnlinkFailures : Cleanup(FALSE, fails)

\* SIGINT or SIGTERM ends the loop: signal_handler or KeyboardInterrupt,
\* then main()'s finally block: camera.release(), event_logger.close(),
\* cleanup_scheduler.stop().
Interrupt ==
    /\ pc = "loop"
    /\ pc' = "stopped"
    /\ stop
    /\ rec' = NoRec
    /\ sweep' = NoSweep
    /\ UNCHANGED <<state, delay_sec, same_event_window, re_notify_interval,
                   suspected_since, current_event, observers, suspected_log,
                   now, last, created, confirmed_to, stay_emit, prev_emit,
                   fallen_run, overwritten, rows, upVars, clips, timers,
                   retention_days, saves, unlinked, rbVars, cancelled,
                   _pending_recordings, skVars, valVars>>

\* The interpreter exits after main() returned: its daemon threads, the
\* timers among them, end where they are.
Exit ==
    /\ pc = "stopped"
    /\ pc' = "exited"
    /\ timers' = {}
    /\ rec' = NoRec
    /\ UNCHANGED <<state, delay_sec, same_event_window, re_notify_interval,
                   suspected_since, current_event, observers, suspected_log,
                   now, last, created, confirmed_to, stay_emit, prev_emit,
                   fallen_run, overwritten, rows, upVars, clips,
                   retention_days, sweep, saves, unlinked, rbVars, cancelled,
                   _pending_recordings, schVars, skVars,
                   valVars>>

NextMain ==
    \/ StartLoop
    \/ CaptureMain
    \/ Recordings
    \/ shutdown
    \/ SchedulerStart
    \/ SchedulerStop
    \/ ScheduledTick
    \/ Interrupt
    \/ Exit

SpecMain == InitMain /\ [][NextMain]_vars

\* ======================================================= SkeletonCollector
MaxExtractions == 1

\* SkeletonCollector.__init__: max_workers = 2, clip_before_sec = 5.0,
\* clip_after_sec = 5.0
max_workers == 2
SkeletonBeforeSec == 5
SkeletonAfterSec == 5

\* SuspectedEvent(suspected_id, suspected_at, outcome = "pending")
SuspectedEvent(suspected_id, suspected_at, outcome) ==
    [suspected_id |-> suspected_id, suspected_at |-> suspected_at,
     outcome |-> outcome]

\* The events handed to the collector: suspicion 1 raised at 0 s and
\* suspicion 2 raised at 12 s, with any outcome label.
SuspectedEvents ==
    {SuspectedEvent(1, Sec(0), o) : o \in {"pending", "confirmed", "cleared"}}
        \cup {SuspectedEvent(2, Sec(12), o) :
                  o \in {"pending", "confirmed", "cleared"}}

\* f"{event.suspected_id}_{event.outcome}.json"
SkeletonFile(suspected_id, label) == <<suspected_id, label>>

\* "if event.suspected_id not in self.pending_events: return", negated
IsPendingEventAlways(suspected_id) == TRUE
IsPendingEvent(suspected_id) == suspected_id \in DOMAIN pending_events

\* A collector just built on a RollingBuffer of the default size.
InitCollector ==
    /\ state = NORMAL
    /\ delay_sec = DefaultConfig[1]
    /\ same_event_window = DefaultConfig[2]
    /\ re_notify_interval = DefaultConfig[3]
    /\ suspected_since = NoTime
    /\ current_event = NoEvent
    /\ observers = <<>>
    /\ suspected_log = <<>>
    /\ pc = "loop"
    /\ now = 0
    /\ rows = <<>>
    /\ last = [is_fallen |-> FALSE, time |-> NoTime, from |-> "init",
               emit |-> "none", new_event |-> FALSE, raised |-> FALSE,
               called |-> {}]
    /\ created = <<>>
    /\ confirmed_to = {}
    /\ stay_emit = NoStayEmit
    /\ prev_emit = NoStayEmit
    /\ fallen_run = FALSE
    /\ overwritten = FALSE
    /\ UploadIdle
    /\ ClipsIdle
    /\ BufferIdle
    /\ RecorderIdle
    /\ SchedulerIdle
    /\ enabled \in BOOLEAN
    /\ pending_events = <<>>
    /\ extraction_count = 0
    /\ executor = IF enabled THEN "ThreadPoolExecutor" ELSE None
    /\ tasks = <<>>
    /\ skeleton_files = {}
    /\ col = NoCol
    /\ ValidatorIdle

\* The capture loop pushes a frame, at 0 s or at 12 s, later than the
\* ones before.
CollectorPush ==
    \E t \in {Sec(0), Sec(12)} :
        /\ \A i \in 1..Len(buffer) : buffer[i].timestamp < t
        /\ buffer' = append(buffer, max_frames, FrameData(t, Len(pushed) + 1))
        /\ pushed' = Append(pushed, FrameData(t, Len(pushed) + 1))
        /\ UNCHANGED <<buffer_seconds, fps, max_frames, _lock, scans>>
        /\ UNCHANGED <<dcVars, rows, upVars, clVars, rcVars, schVars, skVars,
                       valVars>>

\* SkeletonCollector.on_fall_suspected: the event is recorded, nothing else.
on_fall_suspected(event) ==
    /\ col' = [op |-> "on_fall_suspected", event |-> event,
               by |-> "on_fall_suspected", frames |-> <<>>,
               raised |-> FALSE, written |-> NoPath]
    /\ pending_events' =
          IF ~enabled THEN pending_events
          ELSE (event.suspected_id :> event) @@ pending_events
    /\ UNCHANGED <<enabled, extraction_count, executor, tasks, skeleton_files>>
    /\ UNCHANGED <<dcVars, rows, upVars, clVars, rbVars, rcVars, schVars,
                   valVars>>

\* on_suspicion_cleared and on_fall_confirmed_update, which have the same
\* body, with _extract_and_save_async: the snapshot is read at once; an
\* empty one ends the extraction; else extraction_count is incremented and
\* the task _save_skeleton(event, list(frames)) submitted, kept with the
\* callback that submitted it; the submission raises RuntimeError once the
\* executor is shut down; "del self.pending_events[...]" comes last.
resolve(by, event) ==
    LET id == event.suspected_id
        ignored == ~enabled \/ ~IsPendingEvent(id)
        frames == IF ignored THEN <<>>
                  ELSE get_clip(buffer, event.suspected_at,
                                Sec(SkeletonBeforeSec), Sec(SkeletonAfterSec))
        extracting == ~ignored /\ frames # <<>>
        raises == extracting /\ executor # "ThreadPoolExecutor"
    IN  /\ extracting => extraction_count < MaxExtractions
        /\ col' = [op |-> by, event |-> event, by |-> by, frames |-> frames,
                   raised |-> raises, written |-> NoPath]
        /\ extraction_count' =
              IF extracting THEN extraction_count + 1 ELSE extraction_count
        /\ tasks' = IF extracting /\ ~raises
                    THEN Append(tasks, [event |-> event, frames |-> frames,
                                        by |-> by])
                    ELSE tasks
        /\ pending_events' =
              IF ignored \/ raises THEN pending_events
              ELSE [i \in DOMAIN pending_events \ {id} |-> pending_events[i]]
        /\ UNCHANGED <<enabled, executor, skeleton_files>>
        /\ UNCHANGED <<dcVars, rows, upVars, clVars, rbVars, rcVars, schVars,
                       valVars>>

on_suspicion_cleared(event) == resolve("on_suspicion_cleared", event)
on_fall_confirmed_update(event) == resolve("on_fall_confirmed_update", event)

\* SkeletonCollector._save_skeleton, run by one of the executor's workers
\* on one of the oldest max_workers tasks; "fails": extraction or to_json
\* raises, which is caught and logged.
_save_skeleton(i, fails) ==
    LET task == tasks[i]
        filename == SkeletonFile(task.event.suspected_id, task.event.outcome)
    IN  /\ i <= max_workers
        /\ tasks' = [k \in 1..(Len(tasks) - 1) |->
                        IF k < i THEN tasks[k] ELSE tasks[k + 1]]
        /\ skeleton_files' = IF fails THEN skeleton_files
                             ELSE skeleton_files \cup {filename}
        /\ col' = [op |-> "_save_skeleton", event |-> task.event,
                   by |-> task.by, frames |-> task.frames, raised |-> FALSE,
                   written |-> IF fails THEN NoPath ELSE filename]
        /\ UNCHANGED <<enabled, pending_events, extraction_count, executor>>
        /\ UNCHANGED <<dcVars, rows, upVars, clVars, rbVars, rcVars, schVars,
                       valVars>>

\* SkeletonCollector.shutdown: the executor takes no new task; the tasks
\* it has are still run.
collector_shutdown ==
    /\ executor' = IF executor = None THEN None ELSE "shutdown"
    /\ col' = [NoCol EXCEPT !.op = "shutdown"]
    /\ UNCHANGED <<enabled, pending_events, extraction_count, tasks,
                   skeleton_files>>
    /\ UNCHANGED <<dcVars, rows, upVars, clVars, rbVars, rcVars, schVars,
                   valVars>>

NextCollector ==
    \/ CollectorPush
    \/ \E e \in SuspectedEvents : on_fall_suspected(e)
    \/ \E e \in SuspectedEvents : on_suspicion_cleared(e)
    \/ \E e \in SuspectedEvents : on_fall_confirmed_update(e)
    \/ \E i \in 1..Len(tasks), fails \in BOOLEAN : _save_skeleton(i, fails)
    \/ collector_shutdown

SpecCollector == InitCollector /\ [][NextCollector]_vars

\* ======================================================= SkeletonValidator
MaxSeqLen == 2
MaxFrameIdx == 1

\* The documents handed to the validator: the fields that validate reads.
\* A frame of "sequence" has its frame_idx, its timestamp (0 or 1) and
\* "keypoints", the number of entries of its keypoints object (17 or 18);
\* well_formed tells whether the document has the shape of the JSON Schema.
Documents ==
    LET SkeletonFrames ==
            [frame_idx : 0..MaxFrameIdx, timestamp : {0, 1},
             keypoints : {17, 18}]
    IN  [keypoint_format : {"coco17", "mediapipe33"},
         total_frames : 0..MaxSeqLen,
         sequence : UNION {[1..n -> SkeletonFrames] : n \in 0..MaxSeqLen},
         fall_frame_idx : {NoFrameIdx} \cup (0..MaxFrameIdx),
         well_formed : BOOLEAN]

\* "errors = list(self.validator.iter_errors(data))": the structural
\* validation against the JSON Schema.
iter_errors(doc) == IF doc.well_formed THEN <<>> ELSE <<"schema">>

\* "expected_count = 17 if keypoint_format == 'coco17' else 33"
expected_count(keypoint_format) ==
    IF keypoint_format = "coco17" THEN 17 ELSE 33

\* Python's sorted() on a list of integers.
RECURSIVE sorted(_)
sorted(list) ==
    IF list = <<>> THEN <<>>
    ELSE LET k == CHOOSE i \in 1..Len(list) :
                    \A j \in 1..Len(list) : list[i] <= list[j]
             rest == [j \in 1..(Len(list) - 1) |->
                         IF j < k THEN list[j] ELSE list[j + 1]]
         IN  <<list[k]>> \o sorted(rest)

\* SkeletonValidator._validate_semantics: the five checks in their order;
\* "True" when none raises.  "fall_idx > max(frame_indices)" is written
\* over the elements; max() of the empty list raises ValueError.
_validate_semantics(doc) ==
    LET sequence == doc.sequence
        frame_indices == [i \in 1..Len(sequence) |-> sequence[i].frame_idx]
        timestamps == [i \in 1..Len(sequence) |-> sequence[i].timestamp]
    IN  IF \E i \in 1..Len(sequence) :
              sequence[i].keypoints > expected_count(doc.keypoint_format)
        THEN "ValidationError"
        ELSE IF frame_indices # sorted(frame_indices)
        THEN "ValidationError"
        ELSE IF \E i \in 2..Len(timestamps) :
                   timestamps[i] < timestamps[i - 1]
        THEN "ValidationError"
        ELSE IF Len(sequence) > doc.total_frames
        THEN "ValidationError"
        ELSE IF doc.fall_frame_idx = NoFrameIdx
        THEN "True"
        ELSE IF frame_indices = <<>>
        THEN "ValueError"
        ELSE IF \A i \in 1..Len(frame_indices) :
                   doc.fall_frame_idx > frame_indices[i]
        THEN "ValidationError"
        ELSE "True"

\* SkeletonValidator.validate(data)
validate(doc) ==
    IF iter_errors(doc) # <<>> THEN "ValidationError"
    ELSE _validate_semantics(doc)

\* A validator was built and a document is at hand.
InitValidator ==
    /\ state = NORMAL
    /\ delay_sec = DefaultConfig[1]
    /\ same_event_window = DefaultConfig[2]
    /\ re_notify_interval = DefaultConfig[3]
    /\ suspected_since = NoTime
    /\ current_event = NoEvent
    /\ observers = <<>>
    /\ suspected_log = <<>>
    /\ pc = "loop"
    /\ now = 0
    /\ rows = <<>>
    /\ last = [is_fallen |-> FALSE, time |-> NoTime, from |-> "init",
               emit |-> "none", new_event |-> FALSE, raised |-> FALSE,
               called |-> {}]
    /\ created = <<>>
    /\ confirmed_to = {}
    /\ stay_emit = NoStayEmit
    /\ prev_emit = NoStayEmit
    /\ fallen_run = FALSE
    /\ overwritten = FALSE
    /\ UploadIdle
    /\ ClipsIdle
    /\ BufferIdle
    /\ RecorderIdle
    /\ SchedulerIdle
    /\ CollectorIdle
    /\ data \in Documents
    /\ verdict = "none"

\* One validate(data) call: it returns True or raises.
Validate ==
    /\ verdict = "none"
    /\ verdict' = validate(data)
    /\ UNCHANGED <<dcVars, rows, upVars, clVars, rbVars, rcVars, schVars,
                   skVars, data>>

SpecValidator == InitValidator /\ [][Validate]_vars

\* ================================================================ claims
AllObservers == {observers[i] : i \in 1..Len(observers)}
IsDefaultConfig ==
    <<delay_sec, same_event_window, re_notify_interval>> = DefaultConfig

\* C1 (dedup): once a FallEvent has been created at time c, a
\* SUSPECTED -> CONFIRMED transition at a time t with t - c < same_event_window
\* creates no FallEvent and calls no observer; it only sets the state and
\* keeps current_event.
C1_Dedup ==
    [][ ( /\ state = SUSPECTED
          /\ state' = CONFIRMED
          /\ \E i \in 1..Len(created) :
                now' - created[i].confirmed_at < same_event_window )
        => ( /\ created' = created
             /\ last'.emit = "none"
             /\ last'.called = {}
             /\ current_event' = current_event ) ]_vars

\* a confirmation was absorbed after a recovery and a new suspicion
C1_Witness ==
    /\ last.from = SUSPECTED
    /\ state = CONFIRMED
    /\ ~last.new_event
    /\ Len(created) = 1
    /\ now - created[1].confirmed_at < same_event_window
    /\ now > created[1].confirmed_at

\* C2: CONFIRMED is entered only from SUSPECTED, only by an update with
\* is_fallen true and current_time - suspected_since >= delay_sec, is_fallen
\* having been true on every update since the suspicion began; one update with
\* is_fallen false in SUSPECTED returns to NORMAL and forgets suspected_since.
C2_ConfirmOnlyAfterDelay ==
    [][ /\ (state # CONFIRMED /\ state' = CONFIRMED)
            => ( /\ state = SUSPECTED
                 /\ last'.is_fallen
                 /\ suspected_since # NoTime
                 /\ now' - suspected_since >= delay_sec
                 /\ fallen_run' )
        /\ (state = SUSPECTED /\ ~last'.is_fallen)
            => ( /\ state' = NORMAL
                 /\ suspected_since' = NoTime
                 /\ last'.emit = "none" ) ]_vars

\* a confirmation right at the end of the delay
C2_Witness ==
    /\ state = CONFIRMED
    /\ last.from = SUSPECTED
    /\ last.new_event
    /\ now - suspected_since = delay_sec
    /\ delay_sec > 1

\* C3 (re-notify cadence): within one uninterrupted stay in CONFIRMED, two
\* successive on_fall_confirmed calls to the same observer are made by updates
\* at least re_notify_interval apart.
C3_ReNotifyCadence ==
    \A o \in ObserverSet :
        ( /\ last.from = CONFIRMED
          /\ state = CONFIRMED
          /\ last.emit = "confirmed"
          /\ o \in last.called
          /\ prev_emit[o] # NoTime )
        => now - prev_emit[o] >= re_notify_interval

\* an observer got a second call within the same stay
C3_Witness ==
    \E o \in ObserverSet :
        /\ last.from = CONFIRMED
        /\ state = CONFIRMED
        /\ last.emit = "confirmed"
        /\ o \in last.called
        /\ prev_emit[o] # NoTime
        /\ current_event.notification_count >= 3

\* The general rule of C4: a fallen update in CONFIRMED re-emits exactly when
\* current_time - last_notified_at >= re_notify_interval, then adds 1 to
\* notification_count and sets last_notified_at; otherwise nothing changes.
ReNotifyRule ==
    (pc = "loop" /\ state = CONFIRMED /\ last'.is_fallen)
    => IF now' - current_event.last_notified_at >= re_notify_interval
       THEN /\ last'.emit = "confirmed"
            /\ last'.called # {} \/ observers = <<>>
            /\ current_event' =
                  [current_event EXCEPT !.last_notified_at = now',
                                        !.notification_count = @ + 1]
            /\ state' = CONFIRMED
       ELSE /\ last'.emit = "none"
            /\ current_event' = current_event
            /\ state' = CONFIRMED

\* The scenario of C4: delay 3 s, interval 120 s, confirmed at t = 4 s.
InScenario ==
    /\ IsDefaultConfig
    /\ pc = "loop"
    /\ state = CONFIRMED
    /\ current_event.confirmed_at = Sec(4)
    /\ current_event.notification_count = 1
    /\ last'.is_fallen

\* C4 as first stated: the rule, and in the scenario no emission at t = 124
\* and count 2 at t = 125.
C4_Original ==
    [][ /\ ReNotifyRule
        /\ (InScenario /\ now' = Sec(124)) => last'.emit = "none"
        /\ (InScenario /\ now' = Sec(125))
              => current_event'.notification_count = 2 ]_vars

\* C4 (amended): the rule, and in the scenario no emission at t = 123, count 2
\* at the first fallen update at t = 124 or at t = 125.
C4_ReNotify ==
    [][ /\ ReNotifyRule
        /\ (InScenario /\ now' = Sec(123)) => last'.emit = "none"
        /\ (InScenario /\ now' \in {Sec(124), Sec(125)})
              => ( /\ last'.emit = "confirmed"
                   /\ current_event'.notification_count = 2
                   /\ current_event'.last_notified_at = now' ) ]_vars

\* the scenario's second notification, made at t = 124 exactly
C4_Witness ==
    /\ IsDefaultConfig
    /\ state = CONFIRMED
    /\ last.from = CONFIRMED
    /\ last.emit = "confirmed"
    /\ now = Sec(124)
    /\ current_event.confirmed_at = Sec(4)
    /\ current_event.notification_count = 2
    /\ current_event.last_notified_at = Sec(124)

\* C5: two FallEvents created by two confirmations never carry the same
\* event_id, and the table's upsert never replaces the row of another event.
C5_UniqueEventId ==
    /\ \A i, j \in 1..Len(created) :
          i # j => created[i].event_id # created[j].event_id
    /\ ~overwritten

\* C6: on_fall_recovered is delivered for an event only after
\* on_fall_confirmed for that event was delivered to every registered observer.
C6_ConfirmedBeforeRecovered ==
    (last.emit = "recovered" /\ last.called # {})
    => AllObservers \subseteq confirmed_to

\* C7 (observer isolation): when an observer raises inside a callback, all
\* the other observers are still called and update() does not raise.
C7_ObserverIsolation ==
    (last.emit # "none") => (last.called = AllObservers /\ ~last.raised)

\* C8: each NORMAL -> SUSPECTED transition creates a SuspectedEvent and
\* delivers on_fall_suspected to the suspected-observers, and the event is
\* resolved once, on SUSPECTED -> NORMAL or SUSPECTED -> CONFIRMED.
C8_SuspectedEvents ==
    /\ (last.from = NORMAL /\ state = SUSPECTED)
          => ( /\ suspected_log # <<>>
               /\ suspected_log[Len(suspected_log)].kind = "on_fall_suspected" )
    /\ (last.from = SUSPECTED /\ state = NORMAL)
          => ( /\ suspected_log # <<>>
               /\ suspected_log[Len(suspected_log)].kind = "on_suspicion_cleared" )

IsPending(i) ==
    i \in DOMAIN rows /\ rows[i].skeleton_upload_status = "pending"
IsResolved(i) ==
    i \in DOMAIN rows /\ rows[i].skeleton_upload_status \in {"uploaded", "failed"}

\* C9 (at-least-once upload): when the batch upload keeps being run and every
\* attempt terminates, a row persisted as 'pending' is eventually moved to
\* 'uploaded' or 'failed'; no row stays 'pending' forever.
C9_PendingEventuallyResolved ==
    \A i \in UploadIds : IsPending(i) ~> IsResolved(i)

\* C10: with the local file present and dry_run false, when the first k-1
\* attempts raise GoogleCloudError and the k-th succeeds (1 <= k <=
\* retry_attempts), upload_skeleton makes k uploads and k-1 sleeps, returns
\* True and leaves the row 'uploaded' with the generated cloud path and no error.
C10_RetryThenSuccess ==
    \A k \in 1..retry_attempts :
        ( /\ call.result # "none"
          /\ call.existed
          /\ ~call.dry_run
          /\ \A i \in 1..(k - 1) : call.outcomes[i] = "GoogleCloudError"
          /\ call.outcomes[k] = "ok" )
        => ( /\ call.uploads = k
             /\ call.sleeps = k - 1
             /\ call.result = "True"
             /\ call.event_id \in DOMAIN rows
                  => ( /\ rows[call.event_id].skeleton_upload_status = "uploaded"
                       /\ rows[call.event_id].skeleton_cloud_path
                            = _generate_cloud_path(call.event_id)
                       /\ rows[call.event_id].skeleton_upload_error = NoError ) )

\* two GoogleCloudErrors, then the third attempt uploads a pending row
C10_Witness ==
    /\ call.result = "True"
    /\ call.existed
    /\ ~call.dry_run
    /\ call.outcomes = <<"GoogleCloudError", "GoogleCloudError", "ok">>
    /\ call.uploads = 3
    /\ call.sleeps = 2
    /\ call.before = "pending"
    /\ rows[call.event_id].skeleton_upload_status = "uploaded"

\* C11: with the local file present and dry_run false, when every attempt
\* raises the transport error GoogleCloudError, upload_skeleton makes exactly
\* retry_attempts uploads, returns False and leaves the row 'failed' with no
\* cloud path and an error naming the attempt count and the last error.
C11_AllAttemptsFail ==
    ( /\ call.result # "none"
      /\ call.existed
      /\ ~call.dry_run
      /\ \A i \in 1..retry_attempts : call.outcomes[i] = "GoogleCloudError" )
    => ( /\ call.uploads = retry_attempts
         /\ call.result = "False"
         /\ call.event_id \in DOMAIN rows
              => ( /\ rows[call.event_id].skeleton_upload_status = "failed"
                   /\ rows[call.event_id].skeleton_cloud_path = NoPath
                   /\ retry_attempts >= 1
                        => rows[call.event_id].skeleton_upload_error
                             = <<"Upload failed after", retry_attempts,
                                 "GoogleCloudError">> ) )

\* three attempts, three GoogleCloudErrors, on a row that was pending
C11_Witness ==
    /\ retry_attempts = 3
    /\ call.result = "False"
    /\ call.existed
    /\ ~call.dry_run
    /\ call.outcomes = <<"GoogleCloudError", "GoogleCloudError", "GoogleCloudError">>
    /\ call.uploads = 3
    /\ call.before = "pending"
    /\ rows[call.event_id].skeleton_upload_status = "failed"

\* C12: when the object store answers an upload with an authentication
\* failure, upload_skeleton makes exactly one upload and no sleep, and the row
\* is marked 'failed' at once with the error recorded.
C12_AuthNotRetried ==
    ( /\ call.result # "none"
      /\ call.existed
      /\ ~call.dry_run
      /\ retry_attempts >= 1
      /\ call.outcomes[1] = "Forbidden" )
    => ( /\ call.uploads = 1
         /\ call.sleeps = 0
         /\ call.event_id \in DOMAIN rows
              => ( /\ rows[call.event_id].skeleton_upload_status = "failed"
                   /\ rows[call.event_id].skeleton_upload_error # NoError ) )

\* C13: when the local skeleton file does not exist, upload_skeleton makes no
\* upload and no sleep, returns False and marks the row 'failed' with an
\* error that says the file was not found.
C13_MissingFile ==
    ( /\ call.result # "none"
      /\ ~call.existed )
    => ( /\ call.uploads = 0
         /\ call.sleeps = 0
         /\ call.result = "False"
         /\ call.event_id \in DOMAIN rows
              => ( /\ rows[call.event_id].skeleton_upload_status = "failed"
                   /\ rows[call.event_id].skeleton_cloud_path = NoPath
                   /\ rows[call.event_id].skeleton_upload_error
                        = <<"Local file not found", call.event_id>> ) )

\* a pending row whose file is missing has been marked failed
C13_Witness ==
    /\ call.result = "False"
    /\ ~call.existed
    /\ ~call.dry_run
    /\ call.uploads = 0
    /\ call.before = "pending"
    /\ rows[call.event_id].skeleton_upload_status = "failed"

\* C14: a call of upload_skeleton with dry_run = true, for any event id and
\* any local path, uploads nothing and leaves every row of the table as it was.
C14_DryRunTouchesNothing ==
    [][ (call'.result # "none" /\ call'.dry_run)
            => (call'.uploads = 0 /\ rows' = rows) ]_vars

C16_RetentionSafety ==
    [][ sweep'.result # "none"
            => \A i \in DOMAIN rows :
                  rows[i].created_at >= now - retention_days * Sec(86400)
                     => ( /\ rows'[i].clip_path = rows[i].clip_path
                          /\ rows[i].clip_path \in clips
                                => rows[i].clip_path \in clips' ) ]_vars

\* a sweep deleted an old clip while a row too young to expire keeps its
\* clip_path and its file
C16_Witness ==
    /\ sweep.result = "returned"
    /\ ~sweep.dry_run
    /\ sweep.deleted_count >= 1
    /\ \E i \in DOMAIN rows :
          /\ rows[i].created_at >= now - retention_days * Sec(86400)
          /\ rows[i].clip_path # NoPath
          /\ rows[i].clip_path \in clips

\* C17: cleanup(dry_run=True) deletes no file and changes no row; it reports
\* deleted_count = 0 and would_delete_count = the number of expired rows
\* whose file exists.
C17_DryRunSweep ==
    [][ (sweep'.result # "none" /\ sweep'.dry_run)
            => ( /\ clips' = clips
                 /\ rows' = rows
                 /\ sweep'.deleted_count = 0
                 /\ sweep'.would_delete_count =
                       Cardinality({i \in DOMAIN rows :
                           /\ rows[i].clip_path # NoPath
                           /\ rows[i].created_at
                                 < now - retention_days * Sec(86400)
                           /\ rows[i].clip_path \in clips}) ) ]_vars

\* a dry run that found an expired clip on disk and left it there
C17_Witness ==
    /\ sweep.result = "returned"
    /\ sweep.dry_run
    /\ sweep.would_delete_count >= 1
    /\ sweep.deleted_count = 0
    /\ \A k \in 1..Len(sweep.expired) :
          rows[sweep.expired[k]].clip_path # NoPath

\* C18: after a retention tick that is not a dry run, every row the
\* expired-clips query returned has clip_path NULL, whether its file was
\* deleted or was already missing and counted as skipped.
C18_ExpiredRowsCleared ==
    (sweep.result = "returned" /\ ~sweep.dry_run)
        => \A k \in 1..Len(sweep.expired) :
              rows[sweep.expired[k]].clip_path = NoPath

\* C19: a retention tick whose deletion of one expired clip fails counts
\* that row as skipped and goes on: the tick returns and every expired row
\* has been counted as deleted or skipped.
C19_SweepIsolation ==
    (sweep.result # "none" /\ ~sweep.dry_run)
        => ( /\ sweep.result = "returned"
             /\ sweep.deleted_count + sweep.skipped_count = Len(sweep.expired) )

\* C20: over all the on_fall_confirmed deliveries for one event id, the
\* confirmation and the re-notifications, at most one clip is saved (and at
\* most one update_clip_path made) for that event, and retention deletes a
\* clip at most once.
C20_ClipWrittenOnce ==
    /\ \A j, k \in 1..Len(saves) :
          saves[j].event_id = saves[k].event_id => j = k
    /\ \A j, k \in 1..Len(unlinked) :
          unlinked[j] = unlinked[k] => j = k

C23_GracefulShutdown ==
    pc = "stopped" =>
        /\ \A t \in timers : t \in cancelled
        /\ ~_is_running

\* C24: whenever update_clip_path is called for a saved clip, with the
\* wiring of main() or of Pipeline, the table already has the row of that
\* event.
C24_UpdateAfterInsert ==
    \A k \in 1..Len(saves) : saves[k].found

\* Pipeline saved a clip inside the confirmation and its row has the path.
C24_Witness ==
    /\ observers = PipelineWiring
    /\ Len(saves) >= 1
    /\ saves[1].found
    /\ saves[1].event_id \in DOMAIN rows
    /\ rows[saves[1].event_id].clip_path = saves[1].clip_path

\* C25: no update of the event store is lost: every update_clip_path made
\* for a saved clip, from the capture thread or from a timer thread, is
\* executed and committed.
C25_NoUpdateLost ==
    \A k \in 1..Len(saves) : saves[k].found => saves[k].recorded

\* C26: the buffer holds the last k frames pushed since the last clear, in
\* push order, where k is the number of those pushes or, when there were
\* more, floor(buffer_seconds x fps); it never holds more than that.
C26_MostRecentFrames ==
    LET k == Len(buffer)
        n == Len(pushed)
    IN  /\ k * TicksPerSec <= buffer_seconds * fps
        /\ k <= n
        /\ k < n => (k + 1) * TicksPerSec > buffer_seconds * fps
        /\ \A i \in 1..k : buffer[i] = pushed[n - k + i]

\* A buffer of two frames, full, after a third push evicted the first.
C26_Witness ==
    /\ Len(buffer) = 2
    /\ Len(pushed) = 3
    /\ buffer[1] = pushed[2]
    /\ buffer[2] = pushed[3]

\* C27: the list that get_clip returns is made of the frames of the buffer
\* whose timestamp is at least event_time - before_sec and at most
\* event_time + after_sec, in the order of the buffer; it is the empty
\* list when there is none.
C27_WindowFilter ==
    [][ \A r \in Readers :
          (scans[r].pc = "scanning" /\ scans'[r].pc = "returned") =>
              scans'[r].result =
                  SelectSeq(buffer, LAMBDA f :
                      /\ f.timestamp >= scans[r].event_time - scans[r].before_sec
                      /\ f.timestamp <= scans[r].event_time + scans[r].after_sec)
      ]_vars

\* get_clip returned a frame on the upper edge of its window and left out
\* a frame beyond it.
C27_Witness ==
    \E r \in Readers :
        /\ scans[r].pc = "returned"
        /\ scans[r].after_sec > 0
        /\ Len(scans[r].result) = 1
        /\ scans[r].result[1].timestamp
              = scans[r].event_time + scans[r].after_sec
        /\ Len(buffer) = 2

\* C28: the timestamps of the frames that get_clip returns never decrease
\* along the list.
C28_ClipOrdered ==
    \A r \in DOMAIN scans :
        scans[r].pc = "returned" =>
            \A i, j \in 1..Len(scans[r].result) :
                i < j => scans[r].result[i].timestamp
                            <= scans[r].result[j].timestamp

C30_IsRunning ==
    /\ _is_running = asked.running
    /\ jobs = IF asked.running THEN 1 ELSE 0
    /\ ~cleanup_enabled => ~_is_running

\* start() was called while the scheduler was running.
C30_Witness ==
    /\ asked.op = "start"
    /\ asked.noop
    /\ cleanup_enabled
    /\ _is_running
    /\ jobs = 1

Resolutions == {"on_suspicion_cleared", "on_fall_confirmed_update"}
C33_FileNamedByCallback ==
    (col.op = "_save_skeleton" /\ col.written # NoPath) =>
        col.written =
            SkeletonFile(col.event.suspected_id,
                         IF col.by = "on_suspicion_cleared"
                         THEN "cleared" ELSE "confirmed")

\* C34: when an event that is pending is resolved and the snapshot of its
\* frames is empty, a task is still submitted that writes its document.
C34_EmptySnapshotWritten ==
    [][ ( /\ enabled
          /\ executor = "ThreadPoolExecutor"
          /\ col'.op \in Resolutions
          /\ col'.event.suspected_id \in DOMAIN pending_events
          /\ col'.event.suspected_id \notin DOMAIN pending_events'
          /\ col'.frames = <<>> )
        => Len(tasks') = Len(tasks) + 1
      ]_vars

\* C35: validate raises ValidationError for every document whose frame_idx
\* values are not strictly ascending or whose timestamps decrease, and
\* returns True for a document with strictly ascending frame_idx and
\* non-decreasing timestamps that passes the other checks.
StrictlyAscending(doc) ==
    \A i \in 2..Len(doc.sequence) :
        doc.sequence[i - 1].frame_idx < doc.sequence[i].frame_idx
TimestampsDecrease(doc) ==
    \E i \in 2..Len(doc.sequence) :
        doc.sequence[i].timestamp < doc.sequence[i - 1].timestamp
OtherChecksPass(doc) ==
    /\ doc.well_formed
    /\ \A i \in 1..Len(doc.sequence) :
          doc.sequence[i].keypoints <= expected_count(doc.keypoint_format)
    /\ Len(doc.sequence) <= doc.total_frames
    /\ doc.fall_frame_idx # NoFrameIdx =>
          \E i \in 1..Len(doc.sequence) :
              doc.fall_frame_idx <= doc.sequence[i].frame_idx
C35_OrderEnforced ==
    verdict # "none" =>
        /\ (~StrictlyAscending(data) \/ TimestampsDecrease(data))
              => verdict = "ValidationError"
        /\ ( /\ StrictlyAscending(data)
             /\ ~TimestampsDecrease(data)
             /\ OtherChecksPass(data) ) => verdict = "True"

\* C36: when a recording timer fires and the snapshot is empty or the
\* VideoWriter cannot be opened, update_clip_path is not called and no
\* file is written; the row of the event is in the table, unchanged, with
\* no clip_path.
C36_NoClipNoPath ==
    [][ (rec'.op = "fired" /\ rec' # rec
            /\ (rec'.frames = <<>> \/ ~rec'.opened)) =>
              /\ saves' = saves
              /\ clips' = clips
              /\ rows' = rows
              /\ rec'.timer.event_id \in DOMAIN rows'
              /\ rows'[rec'.timer.event_id].clip_path = NoPath
      ]_vars

\* A timer fired on an empty snapshot.
C36_Witness ==
    /\ rec.op = "fired"
    /\ rec.frames = <<>>
    /\ buffer # <<>>
    /\ rec.timer.event_id \in DOMAIN rows
    /\ saves = <<>>

\* A timer fired on a snapshot with frames and the VideoWriter did not open.
C36_WitnessEncoder ==
    /\ rec.op = "fired"
    /\ rec.frames # <<>>
    /\ ~rec.opened
    /\ saves = <<>>

\* C37: when EventLogger.on_fall_confirmed is delivered for an event id that
\* already has a row, as a re-notification is, the row keeps its clip_path,
\* recovered_at, created_at and upload columns; only notification_count
\* changes.
C37_ReNotifyKeepsRow ==
    [][ ( /\ last'.emit = "confirmed"
          /\ ~last'.new_event
          /\ "event_logger" \in last'.called
          /\ ~last'.raised
          /\ current_event'.event_id \in DOMAIN rows )
        => LET old == rows[current_event'.event_id]
               new == rows'[current_event'.event_id]
           IN  /\ new.clip_path = old.clip_path
               /\ new.recovered_at = old.recovered_at
               /\ new.created_at = old.created_at
               /\ new.skeleton_cloud_path = old.skeleton_cloud_path
               /\ new.skeleton_upload_status = old.skeleton_upload_status
               /\ new.skeleton_upload_error = old.skeleton_upload_error
      ]_vars

\* C38: on_fall_recovered reaches the EventLogger at most once for an
\* event: when it is delivered, the row that was inserted for that event
\* records no recovery yet.
C38_RecoveredOnce ==
    [][ ( /\ last'.emit = "recovered"
          /\ "event_logger" \in last'.called
          /\ current_event.event_id \in DOMAIN rows
          /\ rows[current_event.event_id].confirmed_at
                = current_event.confirmed_at )
        => rows[current_event.event_id].recovered_at = NoTime
      ]_vars

\* C39: no clip timer calls update_clip_path on the EventLogger once
\* main()'s shutdown sequence has closed it.
C39_NoWriteAfterClose ==
    [][ (rec'.op = "fired" /\ Len(saves') > Len(saves)) => pc # "stopped"
      ]_vars

\* C40: suspected_since is None exactly when the state is NORMAL, and in
\* state CONFIRMED current_event is set, was notified at least once, and not
\* before it was confirmed.
C40_StateInvariant ==
    /\ (suspected_since = NoTime) <=> (state = NORMAL)
    /\ state = CONFIRMED =>
          /\ current_event # NoEvent
          /\ current_event.notification_count >= 1
          /\ current_event.last_notified_at >= current_event.confirmed_at

====
